---- MODULE Spec2Model ----
(***************************************************************************)
(* Model of src/main.py: the channel watcher.  One run (main) walks the    *)
(* watched channels in order, fetches the latest remote message of each    *)
(* (get_last_msg), compares it with the last line of the channel's CSV     *)
(* store and appends it when its id is new (handle_file), then mails one   *)
(* digest of the new messages (send_mail, MailClient).                     *)
(*                                                                         *)
(* Text is a sequence of one-character strings, so that splitting,         *)
(* stripping, line reading and timestamp formatting are computed as the    *)
(* code computes them.                                                     *)
(***************************************************************************)
EXTENDS Integers, Sequences, FiniteSets, TLC

(***************************************************************************)
(* Text helpers (Python str methods used by the source)                    *)
(***************************************************************************)

Digits == <<"0", "1", "2", "3", "4", "5", "6", "7", "8", "9">>

IsDigit(c) == \E i \in 1..10 : Digits[i] = c

DigitVal(c) == (CHOOSE i \in 1..10 : Digits[i] = c) - 1

\* str.strip() with no argument strips these (of the characters the model uses)
Whitespace == {" ", "\n", "\r", "\t"}

RECURSIVE Dec(_)
\* decimal digits of a natural number, no padding ("%d" % n)
Dec(n) == IF n < 10 THEN <<Digits[n + 1]>>
          ELSE Dec(n \div 10) \o <<Digits[(n % 10) + 1]>>

RECURSIVE ZeroPad(_, _)
ZeroPad(s, w) == IF Len(s) >= w THEN s ELSE ZeroPad(<<"0">> \o s, w)

\* the k-th smallest member of a set of numbers
Nth(S, k) == CHOOSE i \in S : Cardinality({j \in S : j < i}) = k - 1

\* s between the first and the last of the positions kept
Between(s, kept) ==
    IF kept = {} THEN <<>> ELSE SubSeq(s, Nth(kept, 1), Nth(kept, Cardinality(kept)))

\* str.strip(): s without its leading and trailing white space
Strip(s) == Between(s, {i \in 1..Len(s) : s[i] \notin Whitespace})

\* str.replace(c, ""): every occurrence of the character c removed
Remove(s, c) == SelectSeq(s, LAMBDA x : x # c)

\* The fields of s, cut at the positions in cuts (0 and Len(s) + 1 added)
Fields(s, cuts) ==
    [k \in 1..(Cardinality(cuts) - 1) |->
        SubSeq(s, Nth(cuts, k) + 1, Nth(cuts, k + 1) - 1)]

\* str.split(sep) for a one-character separator: always at least one field
Split(s, sep) == Fields(s, {0, Len(s) + 1} \cup {i \in 1..Len(s) : s[i] = sep})

RECURSIVE Concat(_)
\* "".join(parts)
Concat(parts) == IF parts = <<>> THEN <<>> ELSE Head(parts) \o Concat(Tail(parts))

(***************************************************************************)
(* datetime: strftime / strptime as used by Message                        *)
(***************************************************************************)

\* A datetime with a fixed-offset tzinfo; utcoffset is in minutes.
DateTime(y, mo, d, h, mi, sec, us, off) ==
    [year |-> y, month |-> mo, day |-> d, hour |-> h, minute |-> mi,
     second |-> sec, microsecond |-> us, utcoffset |-> off]

NoDate == DateTime(0, 0, 0, 0, 0, 0, 0, 0)

Directives == {"%d", "%m", "%Y", "%H", "%M", "%S", "%f", "%z"}

\* "%d-%m-%YT%H:%M:%S.%f%z"
CSV_DATE_FORMAT ==
    <<"%d", "-", "%m", "-", "%Y", "T", "%H", ":", "%M", ":", "%S", ".", "%f", "%z">>

\* "%Y-%m-%dT%H:%M:%S.%f%z"
JSON_DATE_FORMAT ==
    <<"%Y", "-", "%m", "-", "%d", "T", "%H", ":", "%M", ":", "%S", ".", "%f", "%z">>

\* "%d/%m/%Y, %H:%M:%S"
MAIL_DATE_FORMAT ==
    <<"%d", "/", "%m", "/", "%Y", ",", " ", "%H", ":", "%M", ":", "%S">>

Abs(n) == IF n < 0 THEN -n ELSE n

\* One item of a format: a directive's text for ts, or the literal character.
\* %Y is the C library's: the year's decimal digits, not padded to 4.
FormatItem(ts, d) ==
    CASE d = "%d" -> ZeroPad(Dec(ts.day), 2)
      [] d = "%m" -> ZeroPad(Dec(ts.month), 2)
      [] d = "%Y" -> Dec(ts.year)
      [] d = "%H" -> ZeroPad(Dec(ts.hour), 2)
      [] d = "%M" -> ZeroPad(Dec(ts.minute), 2)
      [] d = "%S" -> ZeroPad(Dec(ts.second), 2)
      [] d = "%f" -> ZeroPad(Dec(ts.microsecond), 6)
      [] d = "%z" -> <<IF ts.utcoffset < 0 THEN "-" ELSE "+">>
                     \o ZeroPad(Dec(Abs(ts.utcoffset) \div 60), 2)
                     \o ZeroPad(Dec(Abs(ts.utcoffset) % 60), 2)
      [] OTHER -> <<d>>

RECURSIVE strftime(_, _)
strftime(ts, fmt) ==
    IF fmt = <<>> THEN <<>> ELSE FormatItem(ts, Head(fmt)) \o strftime(ts, Tail(fmt))

RECURSIVE DigitRun(_, _, _)
\* how many digits stand at s[pos..], at most max
DigitRun(s, pos, max) ==
    IF max = 0 \/ pos > Len(s) \/ ~IsDigit(s[pos]) THEN 0
    ELSE 1 + DigitRun(s, pos + 1, max - 1)

RECURSIVE ToNat(_)
ToNat(ds) == IF ds = <<>> THEN 0
             ELSE 10 * ToNat(SubSeq(ds, 1, Len(ds) - 1)) + DigitVal(ds[Len(ds)])

RECURSIVE PadRight(_, _)
PadRight(ds, w) == IF Len(ds) >= w THEN ds ELSE PadRight(Append(ds, "0"), w)

\* The numeric directives of _strptime's regex: fewest and most digits and the
\* values accepted.  Every numeric directive of the formats above is followed by
\* a non-digit, so the regex match is the longest run of digits.
NumSpec(d) ==
    CASE d = "%d" -> [min |-> 1, max |-> 2, lo |-> 1, hi |-> 31]
      [] d = "%m" -> [min |-> 1, max |-> 2, lo |-> 1, hi |-> 12]
      [] d = "%Y" -> [min |-> 4, max |-> 4, lo |-> 1, hi |-> 9999]
      [] d = "%H" -> [min |-> 1, max |-> 2, lo |-> 0, hi |-> 23]
      [] d = "%M" -> [min |-> 1, max |-> 2, lo |-> 0, hi |-> 59]
      [] d = "%S" -> [min |-> 1, max |-> 2, lo |-> 0, hi |-> 61]
      [] d = "%f" -> [min |-> 1, max |-> 6, lo |-> 0, hi |-> 999999]

ParseFail == [ok |-> FALSE, pos |-> 0, val |-> 0]

\* n digits at s[pos] read as the directive's number (%f: a fraction of a
\* second, in microseconds), when n and the number are in the directive's limits
NumOf(sp, pos, n, v) ==
    IF n >= sp.min /\ v >= sp.lo /\ v <= sp.hi
    THEN [ok |-> TRUE, pos |-> pos + n, val |-> v]
    ELSE ParseFail

NumAt(s, pos, d, sp, n) ==
    NumOf(sp, pos, n, IF d = "%f" THEN ToNat(PadRight(SubSeq(s, pos, pos + n - 1), 6))
                      ELSE ToNat(SubSeq(s, pos, pos + n - 1)))

ParseNumSpec(s, pos, d, sp) == NumAt(s, pos, d, sp, DigitRun(s, pos, sp.max))

ParseNum(s, pos, d) == ParseNumSpec(s, pos, d, NumSpec(d))

\* %z: "Z", or a sign, two digits, an optional colon and two digits (the first
\* 0..5); the offset must be less than a day.  (The optional seconds of an
\* offset are not modelled: no text of the model carries them.)
ZoneAt(s, pos, q, hh) ==
    IF DigitRun(s, q, 2) = 2 /\ DigitVal(s[q]) <= 5 /\ hh < 24
    THEN [ok |-> TRUE, pos |-> q + 2,
          val |-> (IF s[pos] = "-" THEN -1 ELSE 1)
                  * (hh * 60 + ToNat(SubSeq(s, q, q + 1)))]
    ELSE ParseFail

ParseZone(s, pos) ==
    IF pos <= Len(s) /\ s[pos] = "Z" THEN [ok |-> TRUE, pos |-> pos + 1, val |-> 0]
    ELSE IF pos + 2 <= Len(s) /\ s[pos] \in {"+", "-"} /\ DigitRun(s, pos + 1, 2) = 2
    THEN ZoneAt(s, pos,
                IF pos + 3 <= Len(s) /\ s[pos + 3] = ":" THEN pos + 4 ELSE pos + 3,
                ToNat(SubSeq(s, pos + 1, pos + 2)))
    ELSE ParseFail

ParseItem(s, pos, d) ==
    IF d = "%z" THEN ParseZone(s, pos)
    ELSE IF d \in Directives THEN ParseNum(s, pos, d)
    ELSE IF pos <= Len(s) /\ s[pos] = d THEN [ok |-> TRUE, pos |-> pos + 1, val |-> 0]
    ELSE ParseFail

IsLeap(y) == (y % 4 = 0 /\ y % 100 # 0) \/ y % 400 = 0

DaysInMonth(y, mo) ==
    IF mo = 2 THEN (IF IsLeap(y) THEN 29 ELSE 28)
    ELSE IF mo \in {4, 6, 9, 11} THEN 30 ELSE 31

RECURSIVE ParseFrom(_, _, _, _)
\* the items of fmt matched one after another from s[pos]; got maps each
\* directive to its value
RECURSIVE ParseRest(_, _, _, _)
ParseFrom(s, fmt, pos, got) ==
    IF fmt = <<>>
    THEN [ok |-> pos = Len(s) + 1, got |-> got]    \* "unconverted data remains"
    ELSE ParseRest(s, fmt, got, ParseItem(s, pos, Head(fmt)))

\* after the first item of fmt matched (or not) as r
ParseRest(s, fmt, got, r) ==
    IF ~r.ok THEN [ok |-> FALSE, got |-> got]
    ELSE ParseFrom(s, Tail(fmt), r.pos,
                   IF Head(fmt) \in Directives
                   THEN [got EXCEPT ![Head(fmt)] = r.val] ELSE got)

\* The datetime of the matched fields; a day the month does not have is
\* ValueError (ok = FALSE) like a text that does not match
DateOfMatch(ok, g) ==
    IF ok /\ g["%d"] <= DaysInMonth(g["%Y"], g["%m"])
    THEN [ok |-> TRUE,
          ts |-> DateTime(g["%Y"], g["%m"], g["%d"], g["%H"], g["%M"], g["%S"],
                          g["%f"], g["%z"])]
    ELSE [ok |-> FALSE, ts |-> NoDate]

MatchOf(r) == DateOfMatch(r.ok, r.got)

\* datetime.strptime(s, fmt): ok = FALSE is ValueError
strptime(s, fmt) == MatchOf(ParseFrom(s, fmt, 1, [d \in Directives |-> 0]))

\* ts moved by one day forward / backward (calendar roll-over)
NextDay(ts) ==
    IF ts.day < DaysInMonth(ts.year, ts.month) THEN [ts EXCEPT !.day = ts.day + 1]
    ELSE IF ts.month < 12 THEN [ts EXCEPT !.day = 1, !.month = ts.month + 1]
    ELSE [ts EXCEPT !.day = 1, !.month = 1, !.year = ts.year + 1]

PrevDay(ts) ==
    IF ts.day > 1 THEN [ts EXCEPT !.day = ts.day - 1]
    ELSE IF ts.month > 1
    THEN [ts EXCEPT !.day = DaysInMonth(ts.year, ts.month - 1), !.month = ts.month - 1]
    ELSE [ts EXCEPT !.day = 31, !.month = 12, !.year = ts.year - 1]

\* utcoffset of ZoneInfo("Europe/Brussels") in minutes: winter time (CET).  The
\* timestamps of the model lie in January, outside daylight saving time.
BrusselsOffset == 60

\* ts.astimezone(tz) for a zone at offset off: the same instant, shown at off
AtMinute(x, k) == [x EXCEPT !.hour = k \div 60, !.minute = k % 60]

\* t at minute m of its day, m counted from the day's start and possibly in
\* the day before or after
ShiftTo(t, m) ==
    IF m < 0 THEN AtMinute(PrevDay(t), m + 1440)
    ELSE IF m >= 1440 THEN AtMinute(NextDay(t), m - 1440)
    ELSE AtMinute(t, m)

astimezone(ts, off) ==
    ShiftTo([ts EXCEPT !.utcoffset = off],
            ts.hour * 60 + ts.minute + (off - ts.utcoffset))

(***************************************************************************)
(* Message                                                                 *)
(***************************************************************************)

\* An optional value: <<>> is None, <<v>> is v.
None == <<>>

Some(v) == <<v>>

\* Message.__init__: content is stripped and its "\n" removed
Message(id, ts, content, channel_id, channel_name) ==
    [id |-> id, ts |-> ts, content |-> Remove(Strip(content), "\n"),
     channel_id |-> channel_id, channel_name |-> channel_name]

parse_date_from_csv(str_date) == strptime(str_date, CSV_DATE_FORMAT)

parse_date_from_json(str_date) == strptime(str_date, JSON_DATE_FORMAT)

parse_date_to_csv(ts) == strftime(ts, CSV_DATE_FORMAT)

to_CSV_line(m) ==
    Concat(<<parse_date_to_csv(m.ts), <<";">>, m.id, <<";">>, m.content, <<";">>,
             m.channel_id, <<";">>, m.channel_name, <<"\n">> >>)

\* "In {channel_name} at {posted_time} : {content}\n\n"
to_mail_format(m) ==
    Concat(<<<<"I", "n", " ">>, m.channel_name, <<" ", "a", "t", " ">>,
             strftime(astimezone(m.ts, BrusselsOffset), MAIL_DATE_FORMAT),
             <<" ", ":", " ">>, m.content, <<"\n", "\n">> >>)

\* Message.from_CSV_line: the keyword arguments are evaluated in order, so a
\* first field that is no timestamp raises ValueError before a missing field
\* raises IndexError; fields after the fifth are ignored.
FromFields(data, ts) ==
    IF ~ts.ok THEN [ok |-> FALSE, err |-> "ValueError", msg |-> None]
    ELSE IF Len(data) < 5 THEN [ok |-> FALSE, err |-> "IndexError", msg |-> None]
    ELSE [ok |-> TRUE, err |-> "",
          msg |-> Some(Message(data[2], ts.ts, data[3], data[4], data[5]))]

FromData(data) == FromFields(data, parse_date_from_csv(data[1]))

from_CSV_line(csv_line) == FromData(Split(csv_line, ";"))

FromJson(full_json, channel_name, ts) ==
    IF ~ts.ok THEN [ok |-> FALSE, err |-> "ValueError", msg |-> None]
    ELSE [ok |-> TRUE, err |-> "",
          msg |-> Some(Message(full_json.id, ts.ts, full_json.content,
                               full_json.channel_id, channel_name))]

\* Message.from_full_json: full_json is the remote's message object
from_full_json(full_json, channel_name) ==
    FromJson(full_json, channel_name, parse_date_from_json(full_json.timestamp))

(***************************************************************************)
(* The store files, read and written in text mode                          *)
(***************************************************************************)

\* The positions where a line of raw ends, for a file opened in text mode
\* (universal newlines): at "\n", at "\r" not followed by "\n", and at the end
\* of "\r\n"
LineEnds(raw) ==
    {i \in 1..Len(raw) :
        \/ raw[i] = "\n"
        \/ raw[i] = "\r" /\ ~(i < Len(raw) /\ raw[i + 1] = "\n")}

\* The line of raw after position from whose terminator is at position to,
\* the terminator ("\n", "\r" or "\r\n") read as "\n"
LineAt(raw, from, to) ==
    IF raw[to] = "\n" /\ to - 1 > from /\ raw[to - 1] = "\r"
    THEN Append(SubSeq(raw, from + 1, to - 2), "\n")
    ELSE Append(SubSeq(raw, from + 1, to - 1), "\n")

\* The terminated lines, then what follows the last terminator, if anything
LinesOf(raw, ends, n) ==
    [k \in 1..n |-> LineAt(raw, Nth(ends, k), Nth(ends, k + 1))]
    \o (IF Nth(ends, n + 1) < Len(raw)
        THEN <<SubSeq(raw, Nth(ends, n + 1) + 1, Len(raw))>> ELSE <<>>)

\* Iterating the lines of a file opened in text mode
ReadLines(raw) == LinesOf(raw, {0} \cup LineEnds(raw), Cardinality(LineEnds(raw)))

\* deque(file, 1), then last_line[0].strip() when the deque is not empty; the
\* empty deque and the empty string are both falsy, modelled as the empty text
LastOf(lines) == IF lines = <<>> THEN <<>> ELSE Strip(lines[Len(lines)])

LastLineOf(raw) == LastOf(ReadLines(raw))

\* f"last_messages_{chann["name"]}.csv"
Filename(name) == <<"last_messages_">> \o name \o <<".csv">>

(***************************************************************************)
(* Configuration and the remote service                                    *)
(***************************************************************************)

\* How many runs of main() the scheduler starts, one after another.
MaxRuns == 2

\* The processes a run can execute in.  Runs of Spec follow one another in
\* process 1.
Procs == {1, 2}

SeqProcs == {1}

\* The WATCHED_CHANNEL_* values of the environment, "<id>-<name>"
WatchedChannels ==
    << <<"c", "1", "-", "j", "o", "b", "s">>,
       <<"c", "2", "-", "n", "e", "w", "s">>,
       <<"c", "3", "-", "a", "d", "s">> >>

\* {"id": channel.split("-")[0], "name": channel.split("-")[1]}
ChannDict(channel) ==
    [id |-> Split(channel, "-")[1], name |-> Split(channel, "-")[2]]

\* Two watched channels, for the configurations where ids, names and the
\* dashes inside names vary
JOBS_OF_C1 == <<"c", "1", "-", "j", "o", "b", "s">>

JOBS_OF_C2 == <<"c", "2", "-", "j", "o", "b", "s">>

NEWS_OF_C2 == <<"c", "2", "-", "n", "e", "w", "s">>

A_B_OF_C1 == <<"c", "1", "-", "a", "-", "b">>

A_C_OF_C2 == <<"c", "2", "-", "a", "-", "c">>

\* Every WATCHED_CHANNEL_* value of the configurations looked at
ChannelValues ==
    {WatchedChannels[i] : i \in 1..Len(WatchedChannels)}
    \cup {JOBS_OF_C1, JOBS_OF_C2, NEWS_OF_C2, A_B_OF_C1, A_C_OF_C2}

\* main, lines 215-218: the list built from the environment
VARIABLE watched_channels

Chann(i) == ChannDict(watched_channels[i])

\* Every store file a configuration can name
FileNames == {Filename(ChannDict(channel).name) : channel \in ChannelValues}

T_JAN1 ==
    <<"2", "0", "2", "4", "-", "0", "1", "-", "0", "1", "T", "1", "0", ":", "0", "0",
      ":", "0", "0", ".", "0", "0", "0", "0", "0", "0", "+", "0", "0", "0", "0">>

T_JAN2 ==
    <<"2", "0", "2", "4", "-", "0", "1", "-", "0", "2", "T", "2", "3", ":", "3", "0",
      ":", "0", "0", ".", "5", "0", "0", "0", "0", "0", "+", "0", "0", ":", "3", "0">>

\* The message objects the remote can return as the newest of a channel.
\* J_HELLO is the plain one.  J_PADDED has another id and timestamp, and a
\* content padded with white space that holds the delimiter and a line feed.
\* J_CR has J_PADDED's id and a content that holds a carriage return.
J_HELLO(chann_id) ==
    [id |-> <<"4", "2">>, timestamp |-> T_JAN1,
     content |-> <<"h", "e", "l", "l", "o">>, channel_id |-> chann_id]

J_PADDED(chann_id) ==
    [id |-> <<"4", "3">>, timestamp |-> T_JAN2,
     content |-> <<" ", "x", ";", "y", "\n">>, channel_id |-> chann_id]

J_CR(chann_id) ==
    [id |-> <<"4", "3">>, timestamp |-> T_JAN1,
     content |-> <<"a", "\r", "b">>, channel_id |-> chann_id]

\* The first watched channel is the one whose remote and store vary most; the
\* others only ever hold the plain message.
RemoteMessages(chann) ==
    IF chann = Chann(1)
    THEN {J_HELLO(chann.id), J_PADDED(chann.id), J_CR(chann.id)}
    ELSE {J_HELLO(chann.id)}

\* What requests.get can answer: a failure status, or 200 with the JSON array
\* (newest first), empty or not
Responses(chann) ==
    {[status_code |-> 500, data |-> <<>>], [status_code |-> 200, data |-> <<>>]}
    \cup {[status_code |-> 200, data |-> <<j>>] : j \in RemoteMessages(chann)}

\* A record of the store written by an earlier run: J_HELLO's id, with another
\* content and timestamp
OldRecord(name) ==
    to_CSV_line(Message(<<"4", "2">>, parse_date_from_json(T_JAN2).ts, <<"o", "l", "d">>,
                        <<"c", "0">>, name))

StoreKinds(name) ==
    IF name = Chann(1).name THEN {"absent", "empty", "old", "short", "remote_ts"}
    ELSE IF \E i \in 1..Len(watched_channels) : name = Chann(i).name
    THEN {"absent", "old"}
    ELSE {"absent"}

\* What a store can hold before the first run: no file, an empty file, a
\* record of an earlier run, a line of three fields, or a line of five fields
\* whose timestamp is in the remote's format
InitialStore(kind, name) ==
    CASE kind = "absent" -> <<>>
      [] kind = "empty" -> <<>>
      [] kind = "old" -> OldRecord(name)
      [] kind = "short" ->
            parse_date_to_csv(parse_date_from_json(T_JAN1).ts)
            \o <<";", "4", "1", ";", "o", "l", "d", "\n">>
      [] kind = "remote_ts" ->
            T_JAN1 \o <<";", "4", "1", ";", "o", "l", "d", ";", "c", "0", ";">>
            \o name \o <<"\n">>

\* the channel name inside a store's file name
NameOf(f) == SubSeq(f, 2, Len(f) - 1)

(***************************************************************************)
(* State                                                                   *)
(***************************************************************************)

VARIABLES
    present,              \* the store files that exist
    store,                \* the content of each store file ("" when absent)
    runs,                 \* runs started so far
    pc,                   \* where each process stands
    idx,                  \* main: position in watched_channels (1-based)
    new_fetched_message,  \* main: what get_last_msg returned (optional)
    last_line,            \* handle_file: the last line read
    messages_to_send,     \* main: the new messages of this run
    error,                \* the exception in flight or that ended the run
    mail_client,          \* MailClient's class and instance attributes
    requests,             \* the HTTP exchanges of this run
    smtp,                 \* the calls this run made on the mail transport
    logged,               \* what this run logged
    polls,                \* the handle_file calls of this run
    pollHist              \* the last two handle_file calls on each store

vars == <<watched_channels, present, store, runs, pc, idx, new_fetched_message, last_line,
          messages_to_send, error, mail_client, requests, smtp, logged, polls,
          pollHist>>

fileVars == <<present, store, pollHist>>

loopVars == <<idx, new_fetched_message, last_line, messages_to_send, polls>>

\* MailClient before any construction: _instance is None, _initialized False,
\* no object allocated and so no attribute set
NoMailClient ==
    [_instance |-> FALSE, _initialized |-> FALSE, objects |-> 0,
     server |-> "unset", port |-> "unset", account |-> "unset",
     password |-> "unset", _client |-> "None", _connected |-> FALSE]

\* The state before the first run, for a given list of watched channels
InitWith(channels) ==
    /\ watched_channels = channels
    /\ \E kind \in [FileNames -> UNION {StoreKinds(NameOf(f)) : f \in FileNames}] :
          /\ \A f \in FileNames : kind[f] \in StoreKinds(NameOf(f))
          /\ present = {f \in FileNames : kind[f] # "absent"}
          /\ store = [f \in FileNames |-> InitialStore(kind[f], NameOf(f))]
    /\ runs = 0
    /\ pc = [p \in Procs |-> "idle"]
    /\ idx = [p \in Procs |-> 1]
    /\ new_fetched_message = [p \in Procs |-> None]
    /\ last_line = [p \in Procs |-> <<>>]
    /\ messages_to_send = [p \in Procs |-> <<>>]
    /\ error = [p \in Procs |-> ""]
    /\ mail_client = [p \in Procs |-> NoMailClient]
    /\ requests = [p \in Procs |-> <<>>]
    /\ smtp = [p \in Procs |-> <<>>]
    /\ logged = [p \in Procs |-> <<>>]
    /\ polls = [p \in Procs |-> <<>>]
    /\ pollHist = [f \in FileNames |-> <<>>]

Init == InitWith(WatchedChannels)

(***************************************************************************)
(* handle_file and main's loop                                             *)
(***************************************************************************)

\* main starts: a fresh process, nothing fetched, no MailClient yet
StartRun(p) ==
    /\ pc[p] \in {"idle", "exit0", "exit1"}
    /\ runs < MaxRuns
    /\ runs' = runs + 1
    /\ pc' = [pc EXCEPT ![p] = IF watched_channels = <<>> THEN "exit0" ELSE "fetch"]
    /\ idx' = [idx EXCEPT ![p] = 1]
    /\ new_fetched_message' = [new_fetched_message EXCEPT ![p] = None]
    /\ last_line' = [last_line EXCEPT ![p] = <<>>]
    /\ messages_to_send' = [messages_to_send EXCEPT ![p] = <<>>]
    /\ error' = [error EXCEPT ![p] = ""]
    /\ mail_client' = [mail_client EXCEPT ![p] = NoMailClient]
    /\ requests' = [requests EXCEPT ![p] = <<>>]
    /\ smtp' = [smtp EXCEPT ![p] = <<>>]
    /\ logged' = [logged EXCEPT ![p] = <<>>]
    /\ polls' = [polls EXCEPT ![p] = <<>>]
    /\ UNCHANGED <<watched_channels, fileVars>>

\* Fetched, were the status code not looked at
FetchedAnyStatus(p, response, m) ==
    /\ requests' = [requests EXCEPT ![p] =
                      Append(@, [channel |-> Chann(idx[p]).id,
                                 status_code |-> response.status_code])]
    /\ IF m.ok
       THEN /\ new_fetched_message' = [new_fetched_message EXCEPT ![p] = m.msg]
            /\ logged' = [logged EXCEPT ![p] =
                            IF m.msg = None
                            THEN Append(@, "No messages found in the request.")
                            ELSE @]
            /\ pc' = [pc EXCEPT ![p] = "read"]
            /\ UNCHANGED error
       ELSE /\ error' = [error EXCEPT ![p] = m.err]
            /\ pc' = [pc EXCEPT ![p] = "exit1"]
            /\ UNCHANGED <<new_fetched_message, logged>>

\* get_last_msg once requests.get answered response and data[0], if any, was
\* read as m: a status other than 200 is sys.exit(1), an empty array is None
Fetched(p, response, m) ==
    /\ requests' = [requests EXCEPT ![p] =
                      Append(@, [channel |-> Chann(idx[p]).id,
                                 status_code |-> response.status_code])]
    /\ IF response.status_code = 200 /\ m.ok
       THEN /\ new_fetched_message' = [new_fetched_message EXCEPT ![p] = m.msg]
            /\ logged' = [logged EXCEPT ![p] =
                            IF m.msg = None
                            THEN Append(@, "No messages found in the request.")
                            ELSE @]
            /\ pc' = [pc EXCEPT ![p] = "read"]
            /\ UNCHANGED error
       ELSE /\ error' = [error EXCEPT ![p] =
                           IF response.status_code = 200 THEN m.err ELSE "SystemExit"]
            /\ logged' = [logged EXCEPT ![p] =
                            IF response.status_code = 200 THEN @
                            ELSE Append(@, "Request failed")]
            /\ pc' = [pc EXCEPT ![p] = "exit1"]
            /\ UNCHANGED new_fetched_message

\* get_last_msg for the channel at idx
get_last_msg(p) ==
    /\ pc[p] = "fetch"
    /\ \E response \in Responses(Chann(idx[p])) :
         Fetched(p, response,
                 IF response.data # <<>>
                 THEN from_full_json(response.data[1], Chann(idx[p]).name)
                 ELSE [ok |-> TRUE, err |-> "", msg |-> None])
    /\ UNCHANGED <<watched_channels, fileVars, runs, idx, last_line,
                   messages_to_send, mail_client, smtp, polls>>

\* handle_file, lines 194-204: the last line of the store, stripped; a missing
\* file leaves last_line None
handle_file_read(p) ==
    /\ pc[p] = "read"
    /\ LET filename == Filename(Chann(idx[p]).name)
       IN  last_line' = [last_line EXCEPT ![p] =
                           IF filename \in present THEN LastLineOf(store[filename])
                           ELSE <<>>]
    /\ pc' = [pc EXCEPT ![p] = "append"]
    /\ UNCHANGED <<watched_channels, fileVars, runs, idx,
                   new_fetched_message, messages_to_send, error, mail_client,
                   requests, smtp, logged, polls>>

\* file.write(new_fetched_message.to_CSV_line()); return new_fetched_message
Write(fetched) ==
    IF fetched = None
    THEN [raised |-> "AttributeError", ret |-> None, written |-> <<>>]
    ELSE [raised |-> "", ret |-> fetched, written |-> to_CSV_line(fetched[1])]

\* Compare, were the whole last record compared with the fetched message
\* instead of the two ids
CompareWhole(last_file_message, fetched) ==
    IF ~last_file_message.ok
    THEN [raised |-> last_file_message.err, ret |-> None, written |-> <<>>]
    ELSE IF fetched = None
    THEN [raised |-> "AttributeError", ret |-> None, written |-> <<>>]
    ELSE IF last_file_message.msg[1] = fetched[1]
    THEN [raised |-> "", ret |-> None, written |-> <<>>]
    ELSE Write(fetched)

\* lines 206-210, with the last line parsed as last_file_message
Compare(last_file_message, fetched) ==
    IF ~last_file_message.ok
    THEN [raised |-> last_file_message.err, ret |-> None, written |-> <<>>]
    ELSE IF fetched = None
    THEN [raised |-> "AttributeError", ret |-> None, written |-> <<>>]
    ELSE IF last_file_message.msg[1].id = fetched[1].id
    THEN [raised |-> "", ret |-> None, written |-> <<>>]
    ELSE Write(fetched)

\* line 206: Message.from_CSV_line(last_line) when there is a last line
LastFileMessage(line) ==
    IF line # <<>> THEN from_CSV_line(line)
    ELSE [ok |-> FALSE, err |-> "", msg |-> None]

\* handle_file, lines 206-212, on the last line read and the fetched message:
\* what is raised, what is returned and what is written to the store
handle_file_decide(line, fetched) ==
    IF line # <<>> THEN Compare(LastFileMessage(line), fetched) ELSE Write(fetched)

\* MailClient.__new__: an object is allocated only while _instance is None;
\* objects counts the allocations
MailClient_new(mc) ==
    IF mc._instance THEN mc
    ELSE [mc EXCEPT !._instance = TRUE, !.objects = @ + 1]

\* MailClient.__init__, lines 29-35: the assignments
SetAttributes(mc, args) ==
    [mc EXCEPT !.server = args.server, !.port = args.port,
               !.account = args.account, !.password = args.password,
               !._client = "None", !._connected = FALSE, !._initialized = TRUE]

\* MailClient_init, were the attributes set at every construction
MailClient_initAlways(mc, args) == SetAttributes(mc, args)

\* MailClient.__init__ with its four arguments: the attributes are set the
\* first time only
MailClient_init(mc, args) ==
    IF mc._initialized THEN mc ELSE SetAttributes(mc, args)

\* main, lines 230-232: the arguments read from the environment
SmtpEnv ==
    [server |-> "smtp_serv", port |-> "smtp_port", account |-> "smtp_account",
     password |-> "smtp_pass"]

\* MailClient(server, port, account, password): __new__, then __init__ on
\* what it returned
MailClientCall(mc, args) == MailClient_init(MailClient_new(mc), args)

MailClient(mc) == MailClientCall(mc, SmtpEnv)

\* The record of one handle_file call
Poll(p, filename, d) ==
    [run |-> runs, channel |-> idx[p], file |-> filename,
     fetched |-> new_fetched_message[p], last_line |-> last_line[p],
     last_file_message |-> LastFileMessage(last_line[p]),
     existed |-> filename \in present, before |-> store[filename],
     after |-> store[filename] \o d.written, ret |-> d.ret, raised |-> d.raised]

\* Collect, were a returned message put at the front of messages_to_send
CollectFirst(messages, new_written_message) ==
    IF new_written_message # None THEN <<new_written_message[1]>> \o messages
    ELSE messages

\* main, lines 226-227: a message handle_file returned joins the end of
\* messages_to_send
Collect(messages, new_written_message) ==
    IF new_written_message # None THEN Append(messages, new_written_message[1])
    ELSE messages

\* Collected, were send_mail called whether or not there is a message to send
CollectedAlwaysMails(p, collected) ==
    /\ messages_to_send' = [messages_to_send EXCEPT ![p] = collected]
    /\ idx' = [idx EXCEPT ![p] = @ + 1]
    /\ IF idx[p] < Len(watched_channels)
       THEN /\ pc' = [pc EXCEPT ![p] = "fetch"]
            /\ UNCHANGED mail_client
       ELSE /\ pc' = [pc EXCEPT ![p] = "mail_enter"]
            /\ mail_client' = [mail_client EXCEPT ![p] = MailClient(@)]

\* main, lines 221 and 229-233, with the messages collected so far: the loop
\* moves on,
\* and after the last channel the mail client is built when there is
\* something to send
Collected(p, collected) ==
    /\ messages_to_send' = [messages_to_send EXCEPT ![p] = collected]
    /\ idx' = [idx EXCEPT ![p] = @ + 1]
    /\ IF idx[p] < Len(watched_channels)
       THEN /\ pc' = [pc EXCEPT ![p] = "fetch"]
            /\ UNCHANGED mail_client
       ELSE IF collected # <<>>
       THEN /\ pc' = [pc EXCEPT ![p] = "mail_enter"]
            /\ mail_client' = [mail_client EXCEPT ![p] = MailClient(@)]
       ELSE /\ pc' = [pc EXCEPT ![p] = "exit0"]
            /\ UNCHANGED mail_client

\* handle_file, lines 205-212, with its outcome d: the store is opened for
\* appending (and created) and d.written is written; an exception ends the run
Appended(p, filename, d) ==
    /\ present' = present \cup {filename}
    /\ store' = [store EXCEPT ![filename] = @ \o d.written]
    /\ polls' = [polls EXCEPT ![p] = Append(@, Poll(p, filename, d))]
    /\ pollHist' = [pollHist EXCEPT ![filename] =
                      IF @ = <<>> THEN <<Poll(p, filename, d)>>
                      ELSE <<@[Len(@)], Poll(p, filename, d)>>]
    /\ IF d.raised # ""
       THEN /\ error' = [error EXCEPT ![p] = d.raised]
            /\ pc' = [pc EXCEPT ![p] = "exit1"]
            /\ UNCHANGED <<idx, messages_to_send, mail_client, logged>>
       ELSE /\ logged' = [logged EXCEPT ![p] =
                            IF d.ret = None THEN Append(@, "No new messages") ELSE @]
            /\ Collected(p, Collect(messages_to_send[p], d.ret))
            /\ UNCHANGED error

\* handle_file_append, were the last line read again when the store is opened
\* for appending, so that reading and appending are one step
handle_file_appendRereads(p) ==
    /\ pc[p] = "append"
    /\ Appended(p, Filename(Chann(idx[p]).name),
                handle_file_decide(
                    IF Filename(Chann(idx[p]).name) \in present
                    THEN LastLineOf(store[Filename(Chann(idx[p]).name)])
                    ELSE <<>>,
                    new_fetched_message[p]))
    /\ UNCHANGED <<watched_channels, runs, new_fetched_message, last_line, requests,
                   smtp>>

\* handle_file, lines 205-212, then main, lines 226-233
handle_file_append(p) ==
    /\ pc[p] = "append"
    /\ Appended(p, Filename(Chann(idx[p]).name),
                handle_file_decide(last_line[p], new_fetched_message[p]))
    /\ UNCHANGED <<watched_channels, runs, new_fetched_message, last_line, requests,
                   smtp>>

(***************************************************************************)
(* MailClient and send_mail                                                *)
(***************************************************************************)

\* One call on the mail transport, as the server sees it
Call(op, ok) == [op |-> op, ok |-> ok, subject |-> <<>>, content |-> <<>>]

\* MailClient.connect: nothing when connected; else a new SMTP session that
\* connects and logs in, either of which can fail.  _client is the session's
\* state: "None", "new" (created), "open" (connected), "authed", "closed".
connect(mc, outcome) ==
    IF mc._connected THEN [mc |-> mc, calls |-> <<>>, raised |-> ""]
    ELSE CASE outcome = "ok" ->
                [mc |-> [mc EXCEPT !._client = "authed", !._connected = TRUE],
                 calls |-> <<Call("connect", TRUE), Call("login", TRUE)>>,
                 raised |-> ""]
           [] outcome = "connect_fails" ->
                [mc |-> [mc EXCEPT !._client = "new"],
                 calls |-> <<Call("connect", FALSE)>>,
                 raised |-> "SMTPConnectError"]
           [] outcome = "login_fails" ->
                [mc |-> [mc EXCEPT !._client = "open"],
                 calls |-> <<Call("connect", TRUE), Call("login", FALSE)>>,
                 raised |-> "SMTPAuthenticationError"]

ConnectOutcomes == {"ok", "connect_fails", "login_fails"}

\* disconnect, were _connected reset after a successful quit or close only,
\* without the finally clause
disconnectNoFinally(mc, outcome) ==
    IF ~(mc._connected /\ mc._client # "None")
    THEN [mc |-> mc, calls |-> <<>>, raised |-> ""]
    ELSE CASE outcome = "quit_ok" ->
                [mc |-> [mc EXCEPT !._client = "closed", !._connected = FALSE],
                 calls |-> <<Call("quit", TRUE)>>, raised |-> ""]
           [] outcome = "close_ok" ->
                [mc |-> [mc EXCEPT !._client = "closed", !._connected = FALSE],
                 calls |-> <<Call("quit", FALSE), Call("close", TRUE)>>, raised |-> ""]
           [] outcome = "close_fails" ->
                [mc |-> mc,
                 calls |-> <<Call("quit", FALSE), Call("close", FALSE)>>,
                 raised |-> "OSError"]

\* MailClient.disconnect: quit, on its failure close, and in every case
\* _connected = False; a failure of close is raised
disconnect(mc, outcome) ==
    IF ~(mc._connected /\ mc._client # "None")
    THEN [mc |-> mc, calls |-> <<>>, raised |-> ""]
    ELSE CASE outcome = "quit_ok" ->
                [mc |-> [mc EXCEPT !._client = "closed", !._connected = FALSE],
                 calls |-> <<Call("quit", TRUE)>>, raised |-> ""]
           [] outcome = "close_ok" ->
                [mc |-> [mc EXCEPT !._client = "closed", !._connected = FALSE],
                 calls |-> <<Call("quit", FALSE), Call("close", TRUE)>>, raised |-> ""]
           [] outcome = "close_fails" ->
                [mc |-> [mc EXCEPT !._connected = FALSE],
                 calls |-> <<Call("quit", FALSE), Call("close", FALSE)>>,
                 raised |-> "OSError"]

DisconnectOutcomes == {"quit_ok", "close_ok", "close_fails"}

\* f"{len(messages)} new jobs found"
Subject(messages) ==
    Dec(Len(messages))
    \o <<" ", "n", "e", "w", " ", "j", "o", "b", "s", " ", "f", "o", "u", "n", "d">>

RECURSIVE Content(_)
\* send_mail's loop: the messages' mail texts one after another
Content(messages) ==
    IF messages = <<>> THEN <<>>
    ELSE to_mail_format(Head(messages)) \o Content(Tail(messages))

\* The process after a connect that gave c
Connected(p, c) ==
    /\ mail_client' = [mail_client EXCEPT ![p] = c.mc]
    /\ smtp' = [smtp EXCEPT ![p] = @ \o c.calls]
    /\ error' = [error EXCEPT ![p] = c.raised]
    /\ pc' = [pc EXCEPT ![p] = IF c.raised = "" THEN "mail_send" ELSE "exit1"]

\* send_mail, line 171: MailClient.__aenter__ connects; an exception leaves
\* send_mail and main without __aexit__ being called
aenter(p) ==
    /\ pc[p] = "mail_enter"
    /\ \E outcome \in ConnectOutcomes : Connected(p, connect(mail_client[p], outcome))
    /\ UNCHANGED <<watched_channels, fileVars, loopVars, runs, requests, logged>>

\* Email, were the content made of the last message only
EmailOfLast(messages, sent) ==
    [op |-> "send_message", ok |-> sent, subject |-> Subject(messages),
     content |-> IF messages = <<>> THEN <<>>
                 ELSE to_mail_format(messages[Len(messages)])]

\* The email send_mail composes
Email(messages, sent) ==
    [op |-> "send_message", ok |-> sent, subject |-> Subject(messages),
     content |-> Content(messages)]

\* MailClient.send after its connect gave c: the email is handed to the
\* transport, which accepts it (sent) or fails
Sent(p, c, sent) ==
    /\ mail_client' = [mail_client EXCEPT ![p] = c.mc]
    /\ smtp' = [smtp EXCEPT ![p] =
                  IF c.raised = "" THEN Append(@ \o c.calls, Email(messages_to_send[p], sent))
                  ELSE @ \o c.calls]
    /\ error' = [error EXCEPT ![p] =
                   IF c.raised # "" THEN c.raised
                   ELSE IF sent THEN "" ELSE "SMTPException"]

\* send_mail, line 172: MailClient.send connects when needed, builds the email
\* and sends it; an exception is in flight when the scope is left
send(p) ==
    /\ pc[p] = "mail_send"
    /\ \E outcome \in ConnectOutcomes, sent \in BOOLEAN :
         Sent(p, connect(mail_client[p], outcome), sent)
    /\ pc' = [pc EXCEPT ![p] = "mail_exit"]
    /\ UNCHANGED <<watched_channels, fileVars, loopVars, runs, requests, logged>>

\* What __aexit__ returns decides the exception in flight: it returns self, a
\* true value, so the exception is suppressed
aexit_suppresses == TRUE

\* The exception that leaves the "async with" scope: disconnect's, or the one
\* in flight unless __aexit__ suppresses it
Leaving(p, d) ==
    IF d.raised # "" THEN d.raised ELSE IF aexit_suppresses THEN "" ELSE error[p]

\* The process after __aexit__'s disconnect gave d and raised leaves the
\* scope: without an exception send_mail logs the sending and main returns
Exited(p, d, raised) ==
    /\ mail_client' = [mail_client EXCEPT ![p] = d.mc]
    /\ smtp' = [smtp EXCEPT ![p] = @ \o d.calls]
    /\ error' = [error EXCEPT ![p] = raised]
    /\ logged' = [logged EXCEPT ![p] =
                    IF raised = "" THEN Append(@, "sending by email.") ELSE @]
    /\ pc' = [pc EXCEPT ![p] = IF raised = "" THEN "exit0" ELSE "exit1"]

\* aexit, were the scope left without disconnect being called
aexitNoDisconnect(p) ==
    /\ pc[p] = "mail_exit"
    /\ Exited(p, [mc |-> mail_client[p], calls |-> <<>>, raised |-> ""],
              Leaving(p, [mc |-> mail_client[p], calls |-> <<>>, raised |-> ""]))
    /\ UNCHANGED <<watched_channels, fileVars, loopVars, runs, requests>>

\* send_mail, lines 171-173, and the end of main: MailClient.__aexit__
\* disconnects and returns self
aexit(p) ==
    /\ pc[p] = "mail_exit"
    /\ \E outcome \in DisconnectOutcomes :
         Exited(p, disconnect(mail_client[p], outcome),
                Leaving(p, disconnect(mail_client[p], outcome)))
    /\ UNCHANGED <<watched_channels, fileVars, loopVars, runs, requests>>

(***************************************************************************)
(* Specification: runs one after another                                   *)
(***************************************************************************)

Next ==
    \E p \in SeqProcs :
        \/ StartRun(p)
        \/ get_last_msg(p)
        \/ handle_file_read(p)
        \/ handle_file_append(p)
        \/ aenter(p)
        \/ send(p)
        \/ aexit(p)

Spec == Init /\ [][Next]_vars

(***************************************************************************)
(* Specification: the MailClient class used on its own                     *)
(***************************************************************************)

\* How many calls on the mail transport one process makes at most
MaxCalls == 7

\* The arguments a construction is made with: the environment's, or others
ClientArgs ==
    {SmtpEnv,
     [server |-> "other_serv", port |-> "other_port", account |-> "other_account",
      password |-> "other_pass"]}

\* Where a process that uses the class stands: after which call, and whether
\* the call raised
ClientPcs ==
    {"constructed", "connected", "connect_raised", "disconnected",
     "disconnect_raised", "sent", "send_raised"}

\* No store exists and no run is started: only the class is used
ClientInit == InitWith(WatchedChannels) /\ present = {}

\* The process after a method of the client gave r: then is where it stands
\* when the method returned, raised where it stands when the method raised
ClientCalled(p, r, then, raised) ==
    /\ mail_client' = [mail_client EXCEPT ![p] = r.mc]
    /\ smtp' = [smtp EXCEPT ![p] = @ \o r.calls]
    /\ error' = [error EXCEPT ![p] = r.raised]
    /\ pc' = [pc EXCEPT ![p] = IF r.raised = "" THEN then ELSE raised]

\* MailClient(server, port, account, password), with any arguments
ClientConstruct(p) ==
    /\ pc[p] \in ClientPcs \cup {"idle"}
    /\ \E args \in ClientArgs :
         mail_client' = [mail_client EXCEPT ![p] = MailClientCall(@, args)]
    /\ pc' = [pc EXCEPT ![p] = "constructed"]
    /\ UNCHANGED <<watched_channels, fileVars, loopVars, runs, requests, logged, smtp,
                   error>>

\* await client.connect()
ClientConnect(p) ==
    /\ pc[p] \in ClientPcs
    /\ Len(smtp[p]) + 3 <= MaxCalls
    /\ \E outcome \in ConnectOutcomes :
         ClientCalled(p, connect(mail_client[p], outcome), "connected", "connect_raised")
    /\ UNCHANGED <<watched_channels, fileVars, loopVars, runs, requests, logged>>

\* await client.disconnect()
ClientDisconnect(p) ==
    /\ pc[p] \in ClientPcs
    /\ Len(smtp[p]) + 3 <= MaxCalls
    /\ \E outcome \in DisconnectOutcomes :
         ClientCalled(p, disconnect(mail_client[p], outcome), "disconnected",
                      "disconnect_raised")
    /\ UNCHANGED <<watched_channels, fileVars, loopVars, runs, requests, logged>>

\* await client.send(recipient, subject, content)
ClientSend(p) ==
    /\ pc[p] \in ClientPcs
    /\ Len(smtp[p]) + 3 <= MaxCalls
    /\ \E outcome \in ConnectOutcomes, sent \in BOOLEAN :
         /\ Sent(p, connect(mail_client[p], outcome), sent)
         /\ pc' = [pc EXCEPT ![p] =
                     IF connect(mail_client[p], outcome).raised = "" /\ sent
                     THEN "sent" ELSE "send_raised"]
    /\ UNCHANGED <<watched_channels, fileVars, loopVars, runs, requests, logged>>

ClientNext ==
    \E p \in SeqProcs :
        \/ ClientConstruct(p)
        \/ ClientConnect(p)
        \/ ClientDisconnect(p)
        \/ ClientSend(p)

ClientSpec == ClientInit /\ [][ClientNext]_vars

(***************************************************************************)
(* Specification: two watched channels whose ids and names vary            *)
(***************************************************************************)

\* Lists of two distinct channel values: different names; different ids with
\* the same name; names that hold a dash
ChannelLists == {<<JOBS_OF_C1, NEWS_OF_C2>>, <<JOBS_OF_C1, JOBS_OF_C2>>, <<A_B_OF_C1, A_C_OF_C2>>}

IsolationInit == \E channels \in ChannelLists : InitWith(channels)

IsolationSpec == IsolationInit /\ [][Next]_vars

(***************************************************************************)
(* Specification: runs that overlap, on one watched channel                *)
(***************************************************************************)

\* The scheduler starts a run while another is not over: each run is a
\* process of its own
OverlapInit == InitWith(<<JOBS_OF_C1>>)

OverlapNext ==
    \E p \in Procs :
        \/ StartRun(p)
        \/ get_last_msg(p)
        \/ handle_file_read(p)
        \/ handle_file_append(p)
        \/ aenter(p)
        \/ send(p)
        \/ aexit(p)

OverlapSpec == OverlapInit /\ [][OverlapNext]_vars

(***************************************************************************)
(* Properties                                                              *)
(***************************************************************************)

\* The handle_file calls on record: those of the current runs and the last
\* two on each store
Recorded ==
    UNION {{polls[p][k] : k \in 1..Len(polls[p])} : p \in Procs}
    \cup UNION {{pollHist[f][k] : k \in 1..Len(pollHist[f])} : f \in FileNames}

\* The store's last record as the poll read it: the last line has its five
\* fields and a timestamp
HasRecord(r) == r.last_file_message.ok

RecordId(r) == r.last_file_message.msg[1].id

\* C1 speaks of a store that is absent or whose last record has another id
\* than the fetched message
AbsentOrOtherId(r) ==
    \/ ~r.existed
    \/ HasRecord(r) /\ RecordId(r) # r.fetched[1].id

\* two polls one after the other on a store, both given the same message
SameMessageTwice(a, b) ==
    /\ a.fetched # None
    /\ b.fetched = a.fetched
    /\ AbsentOrOtherId(a)

\* C1, idempotent dedup: when two consecutive polls of a store receive the same
\* message m and the store was absent, or its last record had another id,
\* before the first, the first returns m, the second returns None without
\* raising, and the two together append one line, m's.
C1_IdempotentDedup ==
    \A f \in FileNames :
        Len(pollHist[f]) = 2 /\ SameMessageTwice(pollHist[f][1], pollHist[f][2])
        => /\ pollHist[f][1].ret = pollHist[f][1].fetched
           /\ pollHist[f][2].ret = None
           /\ pollHist[f][2].raised = ""
           /\ pollHist[f][2].after
                = pollHist[f][1].before \o to_CSV_line(pollHist[f][1].fetched[1])

\* C1 where it holds: the same, for a message whose content has no carriage
\* return
C1_DedupWithoutCR ==
    \A f \in FileNames :
        /\ Len(pollHist[f]) = 2
        /\ SameMessageTwice(pollHist[f][1], pollHist[f][2])
        /\ \A i \in 1..Len(pollHist[f][1].fetched[1].content) :
              pollHist[f][1].fetched[1].content[i] # "\r"
        => /\ pollHist[f][1].ret = pollHist[f][1].fetched
           /\ pollHist[f][2].ret = None
           /\ pollHist[f][2].raised = ""
           /\ pollHist[f][2].after
                = pollHist[f][1].before \o to_CSV_line(pollHist[f][1].fetched[1])

\* the last record's id is the fetched message's
SameId(r) == r.fetched # None /\ HasRecord(r) /\ RecordId(r) = r.fetched[1].id

\* C2, novelty by id only: a poll whose fetched message has the id of the
\* store's last record returns None, raises nothing and leaves the store as it
\* was, whatever the message's content and timestamp.
C2_NoveltyByIdOnly ==
    \A r \in Recorded :
        SameId(r) => r.ret = None /\ r.raised = "" /\ r.after = r.before

\* C2's case: same id, another content and another timestamp, and the poll is
\* done
C2_Witness ==
    \E r \in Recorded :
        /\ SameId(r)
        /\ r.last_file_message.msg[1].content # r.fetched[1].content
        /\ r.last_file_message.msg[1].ts # r.fetched[1].ts
        /\ r.ret = None

\* C3 speaks of a store that is absent, empty, or whose last record has
\* another id than the fetched message
IsNew(r) ==
    /\ r.fetched # None
    /\ \/ ~r.existed
       \/ r.before = <<>>
       \/ HasRecord(r) /\ RecordId(r) # r.fetched[1].id

\* C3, the new-message step: such a poll raises nothing, returns the message,
\* leaves the store existing with one more line, the message's record, and the
\* next poll reads the message's id back from the last line.
C3_NewMessageStep ==
    \A r \in Recorded :
        IsNew(r)
        => /\ r.raised = ""
           /\ r.ret = r.fetched
           /\ r.file \in present
           /\ r.after = r.before \o to_CSV_line(r.fetched[1])
           /\ Len(ReadLines(r.after)) = Len(ReadLines(r.before)) + 1
           /\ from_CSV_line(LastLineOf(r.after)).ok
           /\ from_CSV_line(LastLineOf(r.after)).msg[1].id = r.fetched[1].id

\* C4, an empty answer of the remote is normal control flow: the poll raises
\* nothing, returns None, writes nothing and creates no store, and the run
\* goes on.
C4_EmptyFetchIsNormal ==
    \A p \in Procs : \A k \in 1..Len(polls[p]) :
        polls[p][k].fetched = None
        => /\ polls[p][k].raised = ""
           /\ polls[p][k].ret = None
           /\ polls[p][k].after = polls[p][k].before
           /\ polls[p][k].existed \/ polls[p][k].file \notin present
           /\ pc[p] # "exit1"

\* a call of the mail transport that delivers the digest failed
TransportFailed(p) ==
    \E k \in 1..Len(smtp[p]) :
        smtp[p][k].op \in {"connect", "login", "send_message"} /\ ~smtp[p][k].ok

\* C5, a mail transport failure is fatal: once the connect, the login or the
\* send_message of the digest has failed, the run never completes successfully
\* and never logs the sending.
C5_MailFailureIsFatal ==
    \A p \in Procs :
        TransportFailed(p)
        => pc[p] # "exit0"
           /\ \A k \in 1..Len(logged[p]) : logged[p][k] # "sending by email."

\* the last fetch of p's run was answered with a status other than 200
FetchFailed(p) ==
    requests[p] # <<>> /\ requests[p][Len(requests[p])].status_code # 200

\* C6, a fetch failure aborts the run: when the fetch of the k-th channel is
\* answered with a status other than 200 the run is over with a non-zero
\* status, k fetches and k-1 handle_file calls were made and no more, every
\* store is as the last handle_file call on it left it, and there is no mail
\* client, no connect and no send.
C6_FetchFailureAborts ==
    \A p \in Procs :
        FetchFailed(p)
        => /\ pc[p] = "exit1"
           /\ error[p] = "SystemExit"
           /\ Len(polls[p]) = Len(requests[p]) - 1
           /\ \A k \in 1..Len(polls[p]) :
                /\ polls[p][k].channel = k
                /\ k = Len(polls[p]) \/ polls[p][k].file # polls[p][Len(polls[p])].file
                   => store[polls[p][k].file] = polls[p][k].after
           /\ smtp[p] = <<>>
           /\ mail_client[p] = NoMailClient

\* C6's case: the fetch of a later channel fails after an earlier channel
\* gave a new message
C6_Witness ==
    \E p \in Procs :
        /\ FetchFailed(p)
        /\ Len(requests[p]) >= 2
        /\ messages_to_send[p] # <<>>
        /\ pc[p] = "exit1"

\* the loop over the watched channels is finished, no handle_file call raised
LoopDone(p) ==
    /\ Len(polls[p]) = Len(watched_channels)
    /\ \A k \in 1..Len(polls[p]) : polls[p][k].raised = ""

\* every channel was polled and every fetched id was the id of the store's
\* last record
Quiet(p) ==
    /\ Len(polls[p]) = Len(watched_channels)
    /\ \A k \in 1..Len(polls[p]) : SameId(polls[p][k])

\* C7, silence when nothing is new: a run in which every fetched id is the id
\* of its store's last record ends with status 0, with no mail client, no
\* call of the mail transport, and every store as it was.
C7_EmptyResultSilence ==
    \A p \in Procs :
        Quiet(p)
        => /\ pc[p] = "exit0"
           /\ error[p] = ""
           /\ smtp[p] = <<>>
           /\ mail_client[p] = NoMailClient
           /\ messages_to_send[p] = <<>>
           /\ \A k \in 1..Len(polls[p]) :
                /\ polls[p][k].after = polls[p][k].before
                /\ store[polls[p][k].file] = polls[p][k].before

\* C7's case: such a run, ended
C7_Witness == \E p \in Procs : Quiet(p) /\ pc[p] = "exit0"

\* the handle_file calls of p's run that appended to their store
Appends(p) == SelectSeq(polls[p], LAMBDA r : r.after # r.before)

\* the messages p's run found new, in the order of the handle_file calls
NewMessages(p) ==
    [k \in 1..Len(SelectSeq(polls[p], LAMBDA r : r.ret # None)) |->
        SelectSeq(polls[p], LAMBDA r : r.ret # None)[k].ret[1]]

\* the emails p's run handed to the transport
Sends(p) == SelectSeq(smtp[p], LAMBDA c : c.op = "send_message")

\* the run is over
Ended(p) == pc[p] \in {"exit0", "exit1"} /\ requests[p] # <<>>

\* the email is the digest of the run's n new messages
IsDigest(email, p) ==
    /\ email.subject = Subject(NewMessages(p))
    /\ Len(NewMessages(p)) = Len(Appends(p))
    /\ email.content = Content(NewMessages(p))

\* C8 as stated, a single digest per run: a run in which n >= 1 channels gave a
\* new message has, once over, handed exactly one email to the transport, the
\* digest of the n messages.
C8_SingleDigestPerRun ==
    \A p \in Procs :
        Ended(p) /\ Len(NewMessages(p)) >= 1
        => Len(Sends(p)) = 1 /\ IsDigest(Sends(p)[1], p)

\* the mail session of p's run was opened and authenticated
LoggedIn(p) ==
    \E k \in 1..Len(smtp[p]) : smtp[p][k].op = "login" /\ smtp[p][k].ok

\* C8 amended, a single digest per completed loop: a run hands at most one
\* email to the transport, and only the digest of its n >= 1 new messages after
\* the loop over all channels; a run whose loop is finished with n >= 1 new
\* messages and whose mail session was opened has, once over, handed over
\* exactly one.
C8_SingleDigestWhenLoopDone ==
    \A p \in Procs :
        /\ Len(Sends(p)) <= 1
        /\ \A k \in 1..Len(Sends(p)) :
              /\ LoopDone(p)
              /\ Len(NewMessages(p)) >= 1
              /\ IsDigest(Sends(p)[k], p)
        /\ Ended(p) /\ LoopDone(p) /\ Len(NewMessages(p)) >= 1 /\ LoggedIn(p)
           => Len(Sends(p)) = 1

\* C8's case: the digest of two new messages, a third channel having nothing
\* new, was handed to the transport and the run is over
C8_Witness ==
    \E p \in Procs :
        /\ Ended(p)
        /\ Len(Sends(p)) = 1
        /\ Len(NewMessages(p)) = 2
        /\ \E k \in 1..Len(polls[p]) : SameId(polls[p][k])

\* the position of a message's channel in the watched-channel list
ChannelIndex(m) ==
    CHOOSE i \in 1..Len(watched_channels) : Chann(i).id = m.channel_id

\* C9, order preserved: the k-th fetch and the k-th handle_file call of a run
\* are those of the k-th watched channel, a fetch is made only when every
\* earlier channel's handle_file call is finished, the messages collected are
\* in the order of their channels, and the digest lists them in that order.
C9_OrderingPreserved ==
    \A p \in Procs :
        /\ \A k \in 1..Len(requests[p]) : requests[p][k].channel = Chann(k).id
        /\ \A k \in 1..Len(polls[p]) :
              /\ polls[p][k].channel = k
              /\ polls[p][k].file = Filename(Chann(k).name)
              /\ polls[p][k].fetched # None
                 => polls[p][k].fetched[1].channel_id = Chann(k).id
        /\ Len(requests[p]) \in {Len(polls[p]), Len(polls[p]) + 1}
        /\ pc[p] = "fetch" => Len(requests[p]) = Len(polls[p])
        /\ pc[p] \in {"read", "append"} => Len(requests[p]) = Len(polls[p]) + 1
        /\ \A i, j \in 1..Len(messages_to_send[p]) :
              i < j => ChannelIndex(messages_to_send[p][i])
                         < ChannelIndex(messages_to_send[p][j])
        /\ \A k \in 1..Len(Sends(p)) :
              Sends(p)[k].content = Content(messages_to_send[p])

\* C9's case: channels one and three gave a new message, channel two did not,
\* and the digest was handed to the transport
C9_Witness ==
    \E p \in Procs :
        /\ Len(Sends(p)) = 1
        /\ Len(messages_to_send[p]) = 2
        /\ ChannelIndex(messages_to_send[p][1]) = 1
        /\ ChannelIndex(messages_to_send[p][2]) = 3
        /\ Sends(p)[1].content
             = to_mail_format(messages_to_send[p][1])
               \o to_mail_format(messages_to_send[p][2])

\* the last line read is no record: its field count is not five, or its first
\* field is no timestamp of the store's format
Malformed(line) ==
    \/ Len(Split(line, ";")) # 5
    \/ ~parse_date_from_csv(Split(line, ";")[1]).ok

\* C10, malformed last record: a handle_file call that reads a last line with
\* a field count other than five, or with a first field that is no timestamp,
\* raises, returns nothing and leaves the store as it was.
C10_MalformedRecordFails ==
    \A r \in Recorded :
        r.last_line # <<>> /\ Malformed(r.last_line)
        => r.raised # "" /\ r.ret = None /\ r.after = r.before

\* C11, persisted round trip: the message a run fetched, written as its record
\* by to_CSV_line and read by from_CSV_line, comes back equal on its five
\* fields, whatever its content.
C11_PersistedRoundTrip ==
    \A p \in Procs :
        new_fetched_message[p] # None
        => from_CSV_line(to_CSV_line(new_fetched_message[p][1]))
             = [ok |-> TRUE, err |-> "", msg |-> new_fetched_message[p]]

\* C11 where it holds: a message whose content has no ";" comes back equal
\* from its record once the line is stripped, as handle_file strips it
C11_RoundTripWithoutDelimiter ==
    \A p \in Procs :
        /\ new_fetched_message[p] # None
        /\ \A i \in 1..Len(new_fetched_message[p][1].content) :
              new_fetched_message[p][1].content[i] # ";"
        => from_CSV_line(Strip(to_CSV_line(new_fetched_message[p][1])))
             = [ok |-> TRUE, err |-> "", msg |-> new_fetched_message[p]]

IsPrefix(s, t) == Len(s) <= Len(t) /\ SubSeq(t, 1, Len(s)) = s

\* the text is one complete line for the store's reader: its only line end is
\* the line feed that closes it
OneCompleteLine(x) == x # <<>> /\ x[Len(x)] = "\n" /\ LineEnds(x) = {Len(x)}

\* C12, append-only ledger: every step leaves each store with its old content
\* as a prefix, and either unchanged or with exactly one complete line more.
C12_AppendOnlyLedger ==
    [][\A f \in FileNames :
          /\ IsPrefix(store[f], store'[f])
          /\ \/ store'[f] = store[f]
             \/ OneCompleteLine(SubSeq(store'[f], Len(store[f]) + 1, Len(store'[f])))]_vars

\* C12 where it holds: no step truncates or rewrites a store, and what a step
\* adds ends with a line feed
C12_NeverRewrites ==
    [][\A f \in FileNames :
          /\ IsPrefix(store[f], store'[f])
          /\ store'[f] # store[f] => store'[f][Len(store'[f])] = "\n"]_vars

\* C13, scoped-use teardown: once the "async with" scope of send_mail was
\* entered, a run that is over has called quit after the send, whether the
\* send succeeded or failed, and _connected is False.
C13_ScopedTeardown ==
    \A p \in Procs :
        Ended(p) /\ LoggedIn(p)
        => /\ ~mail_client[p]._connected
           /\ \E k \in 1..Len(smtp[p]) :
                /\ smtp[p][k].op = "quit"
                /\ \A j \in 1..Len(smtp[p]) : smtp[p][j].op = "send_message" => j < k

\* C13's case: the scope was entered, the send raised, and the run is over
C13_Witness ==
    \E p \in Procs :
        /\ Ended(p)
        /\ LoggedIn(p)
        /\ \E k \in 1..Len(smtp[p]) : smtp[p][k].op = "send_message" /\ ~smtp[p][k].ok
        /\ ~mail_client[p]._connected

\* C15, guaranteed teardown: when a run is over, the SMTP session of its
\* MailClient is not left connected.
C15_NoSessionLeftOpen ==
    \A p \in Procs :
        Ended(p) => mail_client[p]._client \notin {"open", "authed"}

\* C17, content invariant: the content of a message holds no character at which
\* the store's reader ends a line, so its record reads back as a single line.
C17_ContentIsSingleLine ==
    \A p \in Procs :
        new_fetched_message[p] # None
        => /\ LineEnds(new_fetched_message[p][1].content) = {}
           /\ Len(ReadLines(to_CSV_line(new_fetched_message[p][1]))) = 1

\* text x occurs inside text t
IsInfix(x, t) ==
    \E i \in 0..(Len(t) - Len(x)) : SubSeq(t, i + 1, i + Len(x)) = x

\* C19, no silent loss on success: in a run that ended with status 0, every
\* message whose record was appended in that run is in an email whose
\* send_message succeeded in that run.
C19_NoSilentLoss ==
    \A p \in Procs :
        Ended(p) /\ pc[p] = "exit0"
        => \A i \in 1..Len(Appends(p)) :
              \E k \in 1..Len(smtp[p]) :
                 /\ smtp[p][k].op = "send_message"
                 /\ smtp[p][k].ok
                 /\ IsInfix(to_mail_format(Appends(p)[i].fetched[1]), smtp[p][k].content)

\* a call that ends the session: quit or close
IsTeardown(call) == call.op \in {"quit", "close"}

\* the session was opened and authenticated at calls j-1 and j and is not
\* torn down before call k
FreshSessionAt(p, j, k) ==
    /\ j >= 2
    /\ smtp[p][j - 1].op = "connect" /\ smtp[p][j - 1].ok
    /\ smtp[p][j].op = "login" /\ smtp[p][j].ok
    /\ \A i \in (j + 1)..(k - 1) : ~IsTeardown(smtp[p][i])

\* C14, disconnect always ends logically disconnected: when disconnect has
\* returned or raised, whatever quit and close did, _connected is False; and
\* every email is handed to a session that was opened and authenticated after
\* the last quit or close, so a send after a disconnect connects afresh.
C14_DisconnectAlwaysResets ==
    \A p \in Procs :
        /\ pc[p] \in {"disconnected", "disconnect_raised"} => ~mail_client[p]._connected
        /\ \A k \in 1..Len(smtp[p]) :
              smtp[p][k].op = "send_message"
              => \E j \in 1..(k - 1) : FreshSessionAt(p, j, k)

\* C14's case: quit failed, close failed, and the next send opened and
\* authenticated a session and handed the email to it
C14_Witness ==
    \E p \in Procs : \E k \in 5..Len(smtp[p]) :
        /\ smtp[p][k].op = "send_message"
        /\ smtp[p][k - 1].op = "login" /\ smtp[p][k - 1].ok
        /\ smtp[p][k - 2].op = "connect" /\ smtp[p][k - 2].ok
        /\ smtp[p][k - 3].op = "close" /\ ~smtp[p][k - 3].ok
        /\ smtp[p][k - 4].op = "quit" /\ ~smtp[p][k - 4].ok

\* C16, process-wide singleton: a construction returns the one object ever
\* allocated, and a construction made once the class is initialized, with any
\* arguments, changes no attribute, _client and _connected included.
C16_Singleton ==
    [][\A p \in Procs :
          pc'[p] = "constructed"
          => /\ mail_client'[p]._instance
             /\ mail_client'[p].objects = 1
             /\ mail_client[p]._initialized => mail_client'[p] = mail_client[p]]_vars

\* C16's case: the client is connected with the environment's attributes and
\* was just constructed again
C16_Witness ==
    \E p \in Procs :
        /\ pc[p] = "constructed"
        /\ mail_client[p]._connected
        /\ mail_client[p].server = SmtpEnv.server

\* C18, store isolation: the handle_file calls made on one store are all
\* those of one watched channel, distinct channel values having distinct store
\* files, so no poll reads or appends to the watermark of another channel.
C18_StoreIsolation ==
    \A f \in FileNames : \A k, l \in 1..Len(pollHist[f]) :
        pollHist[f][k].channel = pollHist[f][l].channel

\* the last two handle_file calls on a store got the same message, the first
\* found it new, and the second had read the last line the first had read
BothReadOldWatermark(a, b) ==
    /\ a.fetched # None
    /\ b.fetched = a.fetched
    /\ a.ret # None
    /\ b.last_line = a.last_line

\* C20, overlapping runs race: when two runs that got the same message m have
\* both read the old watermark before either appended, the second appends m
\* too and reports it new, and the store ends with two consecutive records
\* of m.
C20_OverlapDuplicates ==
    \A f \in FileNames :
        Len(pollHist[f]) = 2 /\ BothReadOldWatermark(pollHist[f][1], pollHist[f][2])
        => /\ pollHist[f][2].ret = pollHist[f][1].fetched
           /\ pollHist[f][2].raised = ""
           /\ store[f] = pollHist[f][1].before
                         \o to_CSV_line(pollHist[f][1].fetched[1])
                         \o to_CSV_line(pollHist[f][1].fetched[1])

\* C20's case: the store's watermark had another id than m, two runs were at
\* handle_file together, and both appended m
C20_Witness ==
    \E f \in FileNames :
        /\ Len(pollHist[f]) = 2
        /\ BothReadOldWatermark(pollHist[f][1], pollHist[f][2])
        /\ HasRecord(pollHist[f][1])
        /\ RecordId(pollHist[f][1]) # pollHist[f][1].fetched[1].id
        /\ pollHist[f][2].ret = pollHist[f][1].fetched
        /\ \A p \in Procs : Len(polls[p]) = 1 /\ polls[p][1].ret # None

====
